---------------------------- MODULE Spec2Model ----------------------------
(***************************************************************************)
(* Model of sources/manager_download.py: the DownloadManager's resource    *)
(* cache (_REMOTE_RESOURCES_CACHE), the eager GET tasks started by         *)
(* load_remote_resources, their resolution by _get_remote_resource, the    *)
(* shutdown drain close_remote_resources, the GraphQL query engine with    *)
(* its 502 retry budget, the pagination search and the paginated fetch.    *)
(*                                                                         *)
(* Scheduling is asyncio's: one thread, a coroutine runs without           *)
(* preemption from one suspension point to the next.  Each action below is *)
(* one such run: from a call (or a resumption) to the next await that      *)
(* really suspends, or to the return.  Awaiting a Task that is already     *)
(* done does not suspend.                                                  *)
(***************************************************************************)
EXTENDS Integers, Sequences, FiniteSets, TLC

VARIABLES
    cache,      \* _REMOTE_RESOURCES_CACHE: sequence of [k, e], in insertion order
    tasks,      \* every Task made by create_task, by creation index
    gets,       \* transport instrumentation: GET requests issued, per resource name
    regs,       \* registrations of each resource name by load_remote_resources
    res,        \* per consumer: its _get_remote_resource call, or how the last ended
    drain,      \* the close_remote_resources call in progress, or how the last ended
    pages,      \* the provider's data set: the size of each page of the listing
    gq,         \* per GraphQL caller: its get_remote_graphql call, or how the last ended
    fetched,    \* per cache key: fetches run to completion and stored
    posts,      \* transport instrumentation: for each caller it counts, the POSTs
                \* issued by the caller's current call
    tree,       \* a response handed to _find_pagination_and_data_list
    planted,    \* the one paginated object put into tree, if any, and its depth
    found       \* what _find_pagination_and_data_list returned for tree

plainVars == <<tasks, gets, regs, res, drain>>
gqlVars == <<pages, gq, fetched, posts>>
findVars == <<tree, planted, found>>
vars == <<cache, tasks, gets, regs, res, drain, pages, gq, fetched, posts,
          tree, planted, found>>

-----------------------------------------------------------------------------
(* Bounds of the model *)

MaxTasks == 2
MaxPages == 3
MaxPageSize == 2
MaxFetches == 2
MaxDepth == 3

Names == {"linguist", "waka_all"}

-----------------------------------------------------------------------------
(* Python dict with insertion order: a sequence of [k |-> key, e |-> entry]  *)
(* A plain resource key is <<name>>.                                        *)

Has(c, k) == \E i \in 1..Len(c) : c[i].k = k

Idx(c, k) == CHOOSE i \in 1..Len(c) : c[i].k = k

Get(c, k) == c[Idx(c, k)].e

\* d[k] = e : an existing key keeps its position, a new key goes last
Put(c, k, e) ==
    IF Has(c, k) THEN [c EXCEPT ![Idx(c, k)].e = e]
    ELSE Append(c, [k |-> k, e |-> e])

PlainKey(name) == <<name>>

\* cache entries: a Task (Pending) or an httpx Response (Settled)
TaskEntry(id) == [t |-> "task", id |-> id]
\* an entry written before the response's status is filled in
RespEntry_half_updated(r) == [t |-> "resp", r |-> [r EXCEPT !.status = 0]]
RespEntry(r) == [t |-> "resp", r |-> r]

Response(url, status, body) == [url |-> url, status |-> status, body |-> body]
NoResponse == Response("", 0, "")

\* asyncio.Task: created (scheduled, its first step not yet run: client.get
\* has not been entered), running (the GET is with the transport), cancelling
\* (cancel() requested, not yet delivered), done (result r), failed (network
\* error), cancelled
Task(name, url, st, r) == [name |-> name, url |-> url, st |-> st, r |-> r]
TaskDone(t) == t.st \in {"done", "failed", "cancelled"}


-----------------------------------------------------------------------------
(* Response bodies and the two convertors.  A parsed value is written as    *)
(* the text of the Python object; Invalid stands for the parser raising.    *)

Bodies == {"[1]", "a: 1"}
Statuses == {200, 201, 202, 404}
Convertors == {"json", "yaml"}

Invalid == "<raises>"

\* Response.json(): json.loads of the body
JsonLoads(b) ==
    CASE b = "[1]" -> "[1]"
      [] OTHER -> Invalid

\* yaml.safe_load of the body
SafeLoad(b) ==
    CASE b = "[1]" -> "[1]"
      [] b = "a: 1" -> "{'a': 1}"
      [] OTHER -> Invalid

-----------------------------------------------------------------------------
(* Outcome of a call: what it returned or what it raised *)

Outcome(kind, val, url, status) ==
    [kind |-> kind, val |-> val, url |-> url, status |-> status]

Returned(v) == Outcome("return", v, "", 0)
ReturnedNone == Outcome("none", "", "", 0)
RaisedDecode == Outcome("decode_error", "", "", 0)
RaisedNetwork == Outcome("network_error", "", "", 0)
RaisedCancelled == Outcome("cancelled_error", "", "", 0)
RaisedKeyError == Outcome("key_error", "", "", 0)
\* Exception(f"Query '{res.url}' failed to run by returning code of
\*             {res.status_code}: {res.json()}")
RaisedStatus(url, status, json) == Outcome("status_error", json, url, status)

-----------------------------------------------------------------------------
(* load_remote_resources: the keyword arguments are the resources *)

\* lines 84-88: the URL init_download_manager gives each resource
UrlOf(name) ==
    CASE name = "linguist" -> "cdn/languages.yml"
      [] name = "waka_7days" -> "wakapi/last_7_days"
      [] name = "waka_last_12_months" -> "wakapi/last_12_months"
      [] OTHER -> "wakapi/all_time"

\* line 89: the URL of github_stats carries the user's login
StatsUrl(user_login) == <<"contributions", user_login>>

\* lines 84-89: the five keyword arguments of init_download_manager, in order
StartupResources(user_login) ==
    << <<"linguist", UrlOf("linguist")>>,
       <<"waka_7days", UrlOf("waka_7days")>>,
       <<"waka_last_12_months", UrlOf("waka_last_12_months")>>,
       <<"waka_all", UrlOf("waka_all")>>,
       <<"github_stats", StatsUrl(user_login)>> >>

StartupNames == {"linguist", "waka_7days", "waka_last_12_months", "waka_all",
                 "github_stats"}

\* the keyword arguments: sequences of <<name, url>> with distinct names
Resources ==
    { << <<n, UrlOf(n)>> >> : n \in Names } \cup
    { << <<n, UrlOf(n)>>, <<m, UrlOf(m)>> >> : <<n, m>> \in { nm \in Names \X Names :
                                                         nm[1] # nm[2] } }

RECURSIVE LoadCache(_, _, _)
LoadCache(c, rs, firstId) ==
    IF rs = <<>> THEN c
    ELSE LoadCache(Put(c, PlainKey(rs[1][1]), TaskEntry(firstId)),
                   Tail(rs), firstId + 1)

\* lines 104-108: one Task per keyword argument, stored under its name.  The
\* GET is not issued here: create_task schedules the Task's first step.  The
\* model follows a first registration of any size and later ones while
\* there are at most MaxTasks Tasks.
load_remote_resources(rs) ==
    /\ tasks = <<>> \/ Len(tasks) + Len(rs) <= MaxTasks
    /\ tasks' = tasks \o [i \in 1..Len(rs) |->
                              Task(rs[i][1], rs[i][2], "created", NoResponse)]
    /\ cache' = LoadCache(cache, rs, Len(tasks) + 1)
    /\ regs' = [n \in DOMAIN regs |->
                  regs[n] + Cardinality({i \in 1..Len(rs) : rs[i][1] = n})]
    /\ UNCHANGED <<gets, res, drain>>
    /\ UNCHANGED <<gqlVars, findVars>>

\* lines 82-90
init_download_manager(user_login) ==
    load_remote_resources(StartupResources(user_login))

-----------------------------------------------------------------------------
(* The Task's first step enters client.get and the GET reaches the          *)
(* transport; a started GET completes with a response or fails with a       *)
(* network error; once cancel() was requested the Task ends cancelled, and  *)
(* a Task cancelled before its first step never enters client.get.          *)

GetStarts(i) ==
    /\ i \in 1..Len(tasks)
    /\ tasks[i].st = "created"
    /\ tasks' = [tasks EXCEPT ![i].st = "running"]
    /\ gets' = [gets EXCEPT ![tasks[i].name] = @ + 1]
    /\ UNCHANGED <<cache, regs, res, drain>>
    /\ UNCHANGED <<gqlVars, findVars>>

GetCompletes(i, answer) ==
    /\ i \in 1..Len(tasks)
    /\ tasks[i].st = "running"
    /\ tasks' = [tasks EXCEPT ![i].st = "done",
                              ![i].r = Response(tasks[i].url, answer[1], answer[2])]
    /\ UNCHANGED <<cache, gets, regs, res, drain>>
    /\ UNCHANGED <<gqlVars, findVars>>

GetFails(i) ==
    /\ i \in 1..Len(tasks)
    /\ tasks[i].st = "running"
    /\ tasks' = [tasks EXCEPT ![i].st = "failed"]
    /\ UNCHANGED <<cache, gets, regs, res, drain>>
    /\ UNCHANGED <<gqlVars, findVars>>

GetCancelled(i) ==
    /\ i \in 1..Len(tasks)
    /\ tasks[i].st = "cancelling"
    /\ tasks' = [tasks EXCEPT ![i].st = "cancelled"]
    /\ UNCHANGED <<cache, gets, regs, res, drain>>
    /\ UNCHANGED <<gqlVars, findVars>>

-----------------------------------------------------------------------------
(* _get_remote_resource(resource, convertor); get_remote_json passes None   *)
(* ("json": res.json()), get_remote_yaml passes safe_load ("yaml").         *)

Convert(conv, body) == IF conv = "json" THEN JsonLoads(body) ELSE SafeLoad(body)

\* lines 160-169: the status dispatch on the response
StatusOutcome(r, conv) ==
    IF r.status = 200
    THEN IF Convert(conv, r.body) = Invalid THEN RaisedDecode
         ELSE Returned(Convert(conv, r.body))
    ELSE IF r.status \in {201, 202}
    THEN ReturnedNone
    ELSE IF JsonLoads(r.body) = Invalid THEN RaisedDecode
         ELSE RaisedStatus(r.url, r.status, JsonLoads(r.body))

Frame(pc, name, conv, id, r, out) ==
    [pc |-> pc, name |-> name, conv |-> conv, id |-> id, r |-> r, out |-> out]

Idle == Frame("idle", "", "", 0, NoResponse, ReturnedNone)
\* suspended at line 146 on Task id
Awaiting(name, conv, id) == Frame("await", name, conv, id, NoResponse, ReturnedNone)
\* the call ended with outcome out, having looked at response r (if any)
Ended(name, conv, r, out) == Frame("done", name, conv, 0, r, out)

\* a resolve that keeps the Response only when its status is not an error
AfterAwait_errors_not_stored(c, name, conv, t) ==
    IF t.st = "done"
    THEN /\ cache' = IF t.r.status \in {200, 201, 202}
                     THEN Put(cache, PlainKey(name), RespEntry(t.r))
                     ELSE cache
         /\ res' = [res EXCEPT ![c] = Ended(name, conv, t.r, StatusOutcome(t.r, conv))]
    ELSE /\ cache' = cache
         /\ res' = [res EXCEPT ![c] =
                      Ended(name, conv, NoResponse,
                            IF t.st = "failed" THEN RaisedNetwork
                            ELSE RaisedCancelled)]

\* lines 146-153, once the awaited Task t is done: store the Response and go
\* on to the status dispatch, or re-raise what the await raised
AfterAwait(c, name, conv, t) ==
    IF t.st = "done"
    THEN /\ cache' = Put(cache, PlainKey(name), RespEntry(t.r))
         /\ res' = [res EXCEPT ![c] = Ended(name, conv, t.r, StatusOutcome(t.r, conv))]
    ELSE /\ cache' = cache
         /\ res' = [res EXCEPT ![c] =
                      Ended(name, conv, NoResponse,
                            IF t.st = "failed" THEN RaisedNetwork
                            ELSE RaisedCancelled)]

\* lines 141-169, up to the await of line 146 if it suspends
ResolveCall(c, name, conv) ==
    /\ res[c].pc # "await"
    /\ IF ~Has(cache, PlainKey(name))
       THEN /\ res' = [res EXCEPT ![c] = Ended(name, conv, NoResponse, RaisedKeyError)]
            /\ UNCHANGED cache
       ELSE LET cached == Get(cache, PlainKey(name)) IN
            IF cached.t = "task"
            THEN IF TaskDone(tasks[cached.id])
                 THEN AfterAwait(c, name, conv, tasks[cached.id])
                 ELSE /\ res' = [res EXCEPT ![c] = Awaiting(name, conv, cached.id)]
                      /\ UNCHANGED cache
            ELSE /\ res' = [res EXCEPT ![c] =
                              Ended(name, conv, cached.r, StatusOutcome(cached.r, conv))]
                 /\ UNCHANGED cache
    /\ UNCHANGED <<tasks, regs, drain>>
    /\ UNCHANGED <<gqlVars, findVars>>

\* a resolve that starts a GET of its own when it finds the entry Pending
get_remote_resource_refetch(c, name, conv) ==
    /\ ResolveCall(c, name, conv)
    /\ gets' = IF Has(cache, PlainKey(name)) /\ Get(cache, PlainKey(name)).t = "task"
               THEN [gets EXCEPT ![name] = @ + 1]
               ELSE gets

\* the function awaits what the cache holds and calls no client.get
get_remote_resource(c, name, conv) ==
    /\ ResolveCall(c, name, conv)
    /\ gets' = gets

\* the consumer suspended at line 146 is resumed when its Task is done
ResolveResumes(c) ==
    /\ res[c].pc = "await"
    /\ TaskDone(tasks[res[c].id])
    /\ AfterAwait(c, res[c].name, res[c].conv, tasks[res[c].id])
    /\ UNCHANGED <<tasks, gets, regs, drain>>
    /\ UNCHANGED <<gqlVars, findVars>>

-----------------------------------------------------------------------------
(* close_remote_resources *)

DrainFrame(pc, snap, i) == [pc |-> pc, snap |-> snap, i |-> i]
NoDrain == DrainFrame("idle", <<>>, 0)

\* The loop of lines 117-135 from element i of the snapshot, up to the first
\* await that suspends (pc "await"), the end of the loop (pc "ok"), or an
\* exception that leaves the function (pc "raised").  asyncio.CancelledError
\* derives from BaseException, so neither "except Exception" catches it.
RECURSIVE DrainRun(_, _, _)
DrainRun(snap, i, ts) ==
    IF i > Len(snap) THEN [pc |-> "ok", i |-> i, ts |-> ts]
    ELSE IF snap[i].t # "task" THEN DrainRun(snap, i + 1, ts)
    ELSE IF ~TaskDone(ts[snap[i].id])
         THEN [pc |-> "await", i |-> i,
               ts |-> [ts EXCEPT ![snap[i].id].st = "cancelling"]]
    ELSE IF ts[snap[i].id].st = "cancelled"
         THEN [pc |-> "raised", i |-> i, ts |-> ts]
    ELSE DrainRun(snap, i + 1, ts)

\* a drain that empties the cache
DrainedCache_cleared(c) == <<>>

\* lines 117-135 read the cache and never write it
DrainedCache(c) == c

DrainTo(snap, run) ==
    /\ tasks' = run.ts
    /\ drain' = IF run.pc = "await" THEN DrainFrame("await", snap, run.i)
                ELSE DrainFrame(run.pc, <<>>, 0)
    /\ cache' = DrainedCache(cache)
    /\ UNCHANGED <<gets, regs, res>>
    /\ UNCHANGED <<gqlVars, findVars>>

\* list(DownloadManager._REMOTE_RESOURCES_CACHE.values())
Values(c) == [i \in 1..Len(c) |-> c[i].e]

close_remote_resources ==
    /\ drain.pc # "await"
    /\ DrainTo(Values(cache), DrainRun(Values(cache), 1, tasks))

\* the drain suspended at line 124 is resumed when the Task it awaits is done
DrainResumes ==
    /\ drain.pc = "await"
    /\ TaskDone(tasks[drain.snap[drain.i].id])
    /\ DrainTo(drain.snap, DrainRun(drain.snap, drain.i, tasks))

-----------------------------------------------------------------------------
(* JSON values of a GraphQL response: a tree of dicts (key/value pairs in   *)
(* document order), lists and scalars.  Every node has the same fields.     *)

Node(t, kv, els, v) == [t |-> t, kv |-> kv, els |-> els, v |-> v]
Dict(kv) == Node("dict", kv, <<>>, <<>>)
List(els) == Node("list", <<>>, els, <<>>)
Bool(b) == Node("bool", <<>>, <<>>, IF b THEN <<1>> ELSE <<0>>)
Null == Node("null", <<>>, <<>>, <<>>)
\* a string: the sequence of its characters
Str(v) == Node("str", <<>>, <<>>, v)
Number(n) == Node("int", <<>>, <<>>, <<n>>)

\* a response body that is not JSON text, such as an HTML error page
NotJson == Node("text", <<>>, <<>>, <<>>)

\* Response.json() returns the parsed body, or raises a JSON decode error
Decodes(body) == body.t # "text"

\* key in d
DictHas(d, key) == \E i \in 1..Len(d.kv) : d.kv[i][1] = key
\* d[key]
DictGet(d, key) == d.kv[CHOOSE i \in 1..Len(d.kv) : d.kv[i][1] = key][2]
\* d.get(key, default)
DictGetOr(d, key, default) == IF DictHas(d, key) THEN DictGet(d, key) ELSE default

\* Python truth value of a JSON value
Truthy(n) ==
    CASE n.t = "dict" -> n.kv # <<>>
      [] n.t = "list" -> n.els # <<>>
      [] n.t = "bool" -> n.v = <<1>>
      [] n.t = "int" -> n.v # <<0>>
      [] n.t = "null" -> FALSE
      [] OTHER -> n.v # <<>>

-----------------------------------------------------------------------------
(* _find_pagination_and_data_list(response) -> (nodes, pageInfo) *)

PageData(nodes, info) == [nodes |-> nodes, info |-> info, raised |-> FALSE]

\* the search raised AttributeError
FindRaises == [nodes |-> Null, info |-> Null, raised |-> TRUE]

\* list(), dict(hasNextPage=False)
Fallback == PageData(List(<<>>), Dict(<< <<"hasNextPage", Bool(FALSE)>> >>))

\* lines 222 and 229: "if nodes or page_info.get('hasNextPage', False)".
\* When nodes is falsy, page_info.get is evaluated, and a page_info that is
\* not a dict has no get: AttributeError.
GetRaises(pd) == ~Truthy(pd.nodes) /\ pd.info.t # "dict"

Accepted(pd) == Truthy(pd.nodes) \/ Truthy(DictGetOr(pd.info, "hasNextPage", Bool(FALSE)))

\* the recursive call of line 221 or 228 and the test after it: the call or
\* the test raises, the result is returned, or the loop goes on
Probe(pd) ==
    IF pd.raised \/ GetRaises(pd) THEN "raise"
    ELSE IF Accepted(pd) THEN "return"
    ELSE "next"

NoHit == [hit |-> FALSE, pd |-> Fallback]
Hit(pd) == [hit |-> TRUE, pd |-> pd]

RECURSIVE find_pagination_and_data_list(_), FindInValues(_, _), FindInItems(_, _)

\* lines 226-230: the elements of a list value, in index order
FindInItems(els, i) ==
    IF i > Len(els) THEN NoHit
    ELSE IF els[i].t # "dict" THEN FindInItems(els, i + 1)
    ELSE LET pd == find_pagination_and_data_list(els[i])
             probe == Probe(pd)
         IN  IF probe = "raise" THEN Hit(FindRaises)
             ELSE IF probe = "return" THEN Hit(pd)
             ELSE FindInItems(els, i + 1)

\* lines 219-230: the values of the dict, in key order
FindInValues(kv, i) ==
    IF i > Len(kv) THEN NoHit
    ELSE LET value == kv[i][2]
             pd == find_pagination_and_data_list(value)
             probe == Probe(pd)
             item == FindInItems(value.els, 1)
         IN  IF value.t = "dict" /\ probe = "raise" THEN Hit(FindRaises)
             ELSE IF value.t = "dict" /\ probe = "return" THEN Hit(pd)
             ELSE IF value.t = "list" /\ item.hit THEN item
             ELSE FindInValues(kv, i + 1)

find_pagination_and_data_list(response) ==
    IF response.t # "dict" THEN Fallback
    ELSE IF DictHas(response, "nodes") /\ DictHas(response, "pageInfo")
    THEN PageData(DictGet(response, "nodes"), DictGet(response, "pageInfo"))
    ELSE FindInValues(response.kv, 1).pd

-----------------------------------------------------------------------------
(* GITHUB_API_QUERIES and the cache key of get_remote_graphql *)

\* the templates that contain "$pagination"
Paginated(query) ==
    query \in {"repos_contributed_to", "user_repository_list",
               "repo_branch_list", "repo_commit_list"}

\* order of the parameter names as strings, for sort_keys
KeyRank(name) ==
    CASE name = "branch" -> 0
      [] name = "id" -> 1
      [] name = "name" -> 2
      [] name = "owner" -> 3

\* the pairs left in keyword order
SortKeys_unsorted(kwargs) == kwargs

\* dumps(kwargs, sort_keys=True): the pairs in the order of their names
RECURSIVE SortKeys(_)
SortKeys(kwargs) ==
    IF kwargs = <<>> THEN <<>>
    ELSE LET m == CHOOSE i \in 1..Len(kwargs) :
                     \A j \in 1..Len(kwargs) :
                         KeyRank(kwargs[i][1]) <= KeyRank(kwargs[j][1])
         IN <<kwargs[m]>> \o
            SortKeys([j \in 1..(Len(kwargs) - 1) |->
                         IF j < m THEN kwargs[j] ELSE kwargs[j + 1]])

\* md5(...).digest(): taken as free of collisions on the inputs of the model
Md5(text) == <<"md5", text>>

\* line 256: f"{query}_{md5(dumps(kwargs, sort_keys=True).encode('utf-8')).digest()}"
GraphqlKey(query, kwargs) == <<query, Md5(SortKeys(kwargs))>>

\* a cached GraphQL result: the response dict or the flattened list
ValueEntry(v) == [t |-> "value", v |-> v]

-----------------------------------------------------------------------------
(* The GraphQL provider.  A listing has Len(pages) pages; page p holds      *)
(* pages[p] items and ends with the cursor <<p>>.  What a query returns     *)
(* depends on the values substituted into the template, not on the order    *)
(* of the keyword arguments.                                                *)

Arg(query, kwargs) == [query |-> query, kwargs |-> kwargs]

\* Template.substitute(kwargs): the value given for a placeholder
Substituted(kwargs, name) ==
    kwargs[CHOOSE i \in 1..Len(kwargs) : kwargs[i][1] = name][2]

\* what the rendered query selects: the owner, or the comment id
DataTag(a) ==
    LET v == IF Paginated(a.query) THEN Substituted(a.kwargs, "owner")
             ELSE Substituted(a.kwargs, "id")
    IN  IF v = "o1" THEN 1 ELSE 2

Items(a, p) == [j \in 1..pages[p] |-> Str(<<DataTag(a), p, j>>)]

PageInfo(p) ==
    Dict(<< <<"endCursor", Str(<<p>>)>>,
            <<"hasNextPage", Bool(p < Len(pages))>> >>)

\* a body of repo_branch_list: data.repository.refs
RefsBody(nodes, info) ==
    Dict(<< <<"data", Dict(<< <<"repository", Dict(<<
        <<"refs", Dict(<< <<"nodes", nodes>>,
                          <<"pageInfo", info>> >>)>> >>)>> >>)>> >>)

\* the body of page p of the listing
PageBody(a, p) == RefsBody(List(Items(a, p)), PageInfo(p))

\* a body that is itself the object with "nodes" and "pageInfo"
DirectBody(nodes, info) == Dict(<< <<"nodes", nodes>>, <<"pageInfo", info>> >>)

\* the pageInfo of a first page, with or without a page after it
FirstPageInfo(more) ==
    Dict(<< <<"endCursor", Str(<<1>>)>>, <<"hasNextPage", Bool(more)>> >>)

\* 200 bodies whose "nodes" is not a list or whose "pageInfo" is not a
\* dict with both keys
OddBody(kind) ==
    CASE kind = "nodes_null" -> DirectBody(Null, FirstPageInfo(FALSE))
      [] kind = "nodes_null_more" -> DirectBody(Null, FirstPageInfo(TRUE))
      [] kind = "nodes_str" -> DirectBody(Str(<<7>>), FirstPageInfo(FALSE))
      [] kind = "nodes_str_more" -> DirectBody(Str(<<7>>), FirstPageInfo(TRUE))
      [] kind = "nodes_dict_more" ->
           DirectBody(Dict(<< <<"name", Str(<<3>>)>> >>), FirstPageInfo(TRUE))
      [] kind = "nodes_true" -> DirectBody(Bool(TRUE), FirstPageInfo(FALSE))
      [] kind = "nodes_true_more" -> DirectBody(Bool(TRUE), FirstPageInfo(TRUE))
      [] kind = "info_null" -> DirectBody(List(<< Str(<<1, 1, 1>>) >>), Null)
      [] kind = "info_null_nested" -> RefsBody(List(<<>>), Null)
      [] kind = "no_flag" ->
           RefsBody(List(<< Str(<<1, 1, 1>>) >>),
                    Dict(<< <<"endCursor", Str(<<1>>)>> >>))
      [] kind = "no_cursor" ->
           RefsBody(List(<< Str(<<1, 1, 1>>) >>),
                    Dict(<< <<"hasNextPage", Bool(TRUE)>> >>))
      [] kind = "not_json" -> NotJson
      [] kind = "null_cursor" ->
           RefsBody(List(<< Str(<<1, 1, 1>>) >>),
                    Dict(<< <<"endCursor", Null>>, <<"hasNextPage", Bool(TRUE)>> >>))

OddKinds ==
    {"nodes_null", "nodes_null_more", "nodes_str", "nodes_str_more",
     "nodes_dict_more", "nodes_true", "nodes_true_more", "info_null", "info_null_nested",
     "no_flag", "no_cursor", "null_cursor", "not_json"}

\* a page of repo_commit_list, data.repository.ref.target.history, served
\* by a provider whose history never ends: one commit and hasNextPage true
EndlessBody(a, p) ==
    Dict(<< <<"data", Dict(<< <<"repository", Dict(<< <<"ref", Dict(<<
        <<"target", Dict(<<
            <<"history", Dict(<<
                <<"nodes", List(<< Str(<<DataTag(a), p, 1>>) >>)>>,
                <<"pageInfo", Dict(<< <<"endCursor", Str(<<p>>)>>,
                                      <<"hasNextPage", Bool(TRUE)>> >>)>>
            >>)>> >>)>> >>)>> >>)>> >>)>> >>)

\* a 200 answer with no paginated object in it
ErrorsBody ==
    Dict(<< <<"errors", List(<< Dict(<< <<"message", Str(<<0>>)>> >>) >>)>> >>)

\* the body of hide_outdated_comment
MutationBody(a) ==
    Dict(<< <<"data", Dict(<< <<"minimizeComment", Dict(<<
        <<"clientMutationId", Str(<<DataTag(a)>>)>> >>)>> >>)>> >>)

\* pagination="first: 100": the argument names no cursor
NoCursor == Node("none", <<>>, <<>>, <<>>)

\* the page the pagination argument asks for: "first: 100" is the first
\* page, 'first: 100, after: "<p>"' the page after p, and a cursor the
\* provider never gave out is no page
AskedPage(after) ==
    IF after = NoCursor THEN 1
    ELSE IF after.t = "str" /\ Len(after.v) = 1 THEN after.v[1] + 1
    ELSE 0

HttpAnswer(status, body) == [status |-> status, body |-> body]

\* the provider's answer of the given kind to the request caller g has in flight
Answer(g, kind) ==
    CASE kind = "502" -> HttpAnswer(502, Null)
      [] kind = "502_text" -> HttpAnswer(502, NotJson)
      [] kind = "404" -> HttpAnswer(404, Null)
      [] kind = "404_text" -> HttpAnswer(404, NotJson)
      [] kind = "500" -> HttpAnswer(500, Null)
      [] kind = "errors" -> HttpAnswer(200, ErrorsBody)
      [] kind \in OddKinds -> HttpAnswer(200, OddBody(kind))
      [] OTHER ->
           IF ~Paginated(gq[g].a.query) THEN HttpAnswer(200, MutationBody(gq[g].a))
           ELSE IF gq[g].a.query = "repo_commit_list"
           THEN HttpAnswer(200, EndlessBody(gq[g].a, AskedPage(gq[g].after)))
           ELSE IF AskedPage(gq[g].after) \in 1..Len(pages)
           THEN HttpAnswer(200, PageBody(gq[g].a, AskedPage(gq[g].after)))
           ELSE HttpAnswer(200, ErrorsBody)

\* every item of every page, in page order
RECURSIVE AllItems(_, _)
AllItems(a, p) ==
    IF p > Len(pages) THEN <<>> ELSE Items(a, p) \o AllItems(a, p + 1)

-----------------------------------------------------------------------------
(* _fetch_graphql_query, _fetch_graphql_paginated, get_remote_graphql *)

RetriesCount == 10

GOutcome(kind, val, status) == [kind |-> kind, val |-> val, status |-> status]
NoOutcome == GOutcome("", Null, 0)

GFrame(pc, a, first, after, retries, acc, n, k, np, clean, hit, out) ==
    [pc |-> pc, a |-> a, first |-> first, after |-> after, retries |-> retries,
     acc |-> acc, n |-> n, k |-> k, np |-> np, clean |-> clean, hit |-> hit,
     out |-> out]

\* page_list before the first page has come
NoList == Node("none", <<>>, <<>>, <<>>)

GIdle ==
    GFrame("idle", Arg("", <<>>), TRUE, NoCursor, 0, NoList, 0, 0, 0, TRUE, FALSE,
           NoOutcome)

\* a POST of _fetch_graphql_query is in flight: the n-th POST of this engine
\* call, after k 502 answers, with retries_count = retries; acc is page_list;
\* np page answers arrived before it; clean: each of them was a page of the
\* listing
Posting(a, first, after, retries, acc, n, k, np, clean) ==
    GFrame("post", a, first, after, retries, acc, n, k, np, clean, FALSE, NoOutcome)

\* the call ended with outcome out; n and k are those of its last engine call
GEnded(a, n, k, np, clean, hit, out) ==
    GFrame("done", a, TRUE, NoCursor, 0, NoList, n, k, np, clean, hit, out)

InFlight == {g \in DOMAIN gq : gq[g].pc = "post"}

RECURSIVE SumFetched(_)
SumFetched(ks) ==
    IF ks = {} THEN 0
    ELSE LET x == CHOOSE x \in ks : TRUE IN fetched[x] + SumFetched(ks \ {x})

\* lines 262, 265: store the result under the key and return it
StoreAndReturn(g, c, value, np, clean) ==
    LET key == GraphqlKey(c.a.query, c.a.kwargs) IN
    /\ cache' = Put(cache, key, ValueEntry(value))
    /\ fetched' = [fetched EXCEPT ![key] = @ + 1]
    /\ gq' = [gq EXCEPT ![g] =
                GEnded(c.a, c.n, c.k, np, clean, FALSE,
                       GOutcome("return", value, 200))]

\* a failing call that leaves the pages it has accumulated in the cache
Raise_stores_partial(g, c, kind, status) ==
    /\ gq' = [gq EXCEPT ![g] =
                GEnded(c.a, c.n, c.k, c.np, c.clean, FALSE,
                       GOutcome(kind, Null, status))]
    /\ cache' = IF c.np > 0
                THEN Put(cache, GraphqlKey(c.a.query, c.a.kwargs),
                         ValueEntry(c.acc))
                ELSE cache
    /\ UNCHANGED fetched

\* the call raises: nothing is stored.  status is the status code the error
\* carries, 0 for an error that carries none
Raise(g, c, kind, status) ==
    /\ gq' = [gq EXCEPT ![g] =
                GEnded(c.a, c.n, c.k, c.np, c.clean, FALSE,
                       GOutcome(kind, Null, status))]
    /\ UNCHANGED <<cache, fetched>>

\* a retry of every server error, not of 502 alone
MayRetry_any_5xx(status, retries_count) == status >= 500 /\ retries_count > 0

\* line 191: res.status_code == 502 and retries_count > 0
MayRetry(status, retries_count) == status = 502 /\ retries_count > 0

\* the new page replaces the list
Extend_replace(page_list, new_page_list) == new_page_list

\* line 251: page_list += new_page_list
Extend(page_list, new_page_list) == page_list \o new_page_list

\* the characters of a string and the keys of a dict, as list elements
Chars(b) == [i \in 1..Len(b.v) |-> Str(<<b.v[i]>>)]
Keys(b) == [i \in 1..Len(b.kv) |-> Str(<<b.kv[i][1]>>)]

\* line 251 raises TypeError: "+=" is defined for a list and an iterable
\* (list, str, dict), for two strings and for two numbers (bool is one)
AddRaises(page_list, new_page_list) ==
    ~ \/ page_list.t = "list" /\ new_page_list.t \in {"list", "str", "dict"}
      \/ page_list.t = "str" /\ new_page_list.t = "str"
      \/ page_list.t \in {"bool", "int"} /\ new_page_list.t \in {"bool", "int"}

\* line 251, "page_list += new_page_list", on the values JSON can hold
InPlaceAdd(page_list, new_page_list) ==
    CASE page_list.t = "list" /\ new_page_list.t = "list" ->
           List(Extend(page_list.els, new_page_list.els))
      [] page_list.t = "list" /\ new_page_list.t = "str" ->
           List(Extend(page_list.els, Chars(new_page_list)))
      [] page_list.t = "list" /\ new_page_list.t = "dict" ->
           List(Extend(page_list.els, Keys(new_page_list)))
      [] page_list.t = "str" /\ new_page_list.t = "str" ->
           Str(page_list.v \o new_page_list.v)
      [] page_list.t \in {"bool", "int"} /\ new_page_list.t \in {"bool", "int"} ->
           Number(page_list.v[1] + new_page_list.v[1])
      [] OTHER -> Null

\* the body is the page of the listing that the request asked for
IsPage(c, body) ==
    IF c.a.query = "repo_commit_list"
    THEN body = EndlessBody(c.a, AskedPage(c.after))
    ELSE /\ AskedPage(c.after) \in 1..Len(pages)
         /\ body = PageBody(c.a, AskedPage(c.after))

\* a loop that asks for the next page with the cursor it already had
fetch_graphql_paginated_stale_cursor(g, c, body) ==
    LET pd == find_pagination_and_data_list(body)
        page_list == IF c.first THEN pd.nodes ELSE InPlaceAdd(c.acc, pd.nodes)
        clean == c.clean /\ IsPage(c, body)
    IN  IF pd.raised
        THEN Raise(g, c, "attribute_error", 0)
        ELSE IF ~c.first /\ AddRaises(c.acc, pd.nodes)
        THEN Raise(g, c, "type_error", 0)
        ELSE IF pd.info.t # "dict"
        THEN Raise(g, c, "type_error", 0)
        ELSE IF ~DictHas(pd.info, "hasNextPage")
        THEN Raise(g, c, "key_error", 0)
        ELSE IF Truthy(DictGet(pd.info, "hasNextPage"))
        THEN IF ~DictHas(pd.info, "endCursor")
             THEN Raise(g, c, "key_error", 0)
             ELSE /\ gq' = [gq EXCEPT ![g] =
                             Posting(c.a, FALSE, c.after,
                                     RetriesCount, page_list, 1, 0, c.np + 1,
                                     clean)]
                  /\ UNCHANGED <<cache, fetched>>
        ELSE StoreAndReturn(g, c, page_list, c.np + 1, clean)

\* a loop that gives up after two pages, whatever hasNextPage says
fetch_graphql_paginated_capped(g, c, body) ==
    LET pd == find_pagination_and_data_list(body)
        page_list == IF c.first THEN pd.nodes ELSE InPlaceAdd(c.acc, pd.nodes)
        clean == c.clean /\ IsPage(c, body)
    IN  IF pd.raised
        THEN Raise(g, c, "attribute_error", 0)
        ELSE IF ~c.first /\ AddRaises(c.acc, pd.nodes)
        THEN Raise(g, c, "type_error", 0)
        ELSE IF pd.info.t # "dict"
        THEN Raise(g, c, "type_error", 0)
        ELSE IF ~DictHas(pd.info, "hasNextPage")
        THEN Raise(g, c, "key_error", 0)
        ELSE IF Truthy(DictGet(pd.info, "hasNextPage")) /\ c.np + 1 < 2
        THEN IF ~DictHas(pd.info, "endCursor")
             THEN Raise(g, c, "key_error", 0)
             ELSE /\ gq' = [gq EXCEPT ![g] =
                             Posting(c.a, FALSE, DictGet(pd.info, "endCursor"),
                                     RetriesCount, page_list, 1, 0, c.np + 1,
                                     clean)]
                  /\ UNCHANGED <<cache, fetched>>
        ELSE StoreAndReturn(g, c, page_list, c.np + 1, clean)

\* a loop that hands what is left of the retry budget on to the next page
fetch_graphql_paginated_shared_budget(g, c, body) ==
    LET pd == find_pagination_and_data_list(body)
        page_list == IF c.first THEN pd.nodes ELSE InPlaceAdd(c.acc, pd.nodes)
        clean == c.clean /\ IsPage(c, body)
    IN  IF pd.raised
        THEN Raise(g, c, "attribute_error", 0)
        ELSE IF ~c.first /\ AddRaises(c.acc, pd.nodes)
        THEN Raise(g, c, "type_error", 0)
        ELSE IF pd.info.t # "dict"
        THEN Raise(g, c, "type_error", 0)
        ELSE IF ~DictHas(pd.info, "hasNextPage")
        THEN Raise(g, c, "key_error", 0)
        ELSE IF Truthy(DictGet(pd.info, "hasNextPage"))
        THEN IF ~DictHas(pd.info, "endCursor")
             THEN Raise(g, c, "key_error", 0)
             ELSE /\ gq' = [gq EXCEPT ![g] =
                             Posting(c.a, FALSE, DictGet(pd.info, "endCursor"),
                                     c.retries, page_list, 1, 0, c.np + 1,
                                     clean)]
                  /\ UNCHANGED <<cache, fetched>>
        ELSE StoreAndReturn(g, c, page_list, c.np + 1, clean)

\* lines 240-252: one page body arrived.  After the first page the new items
\* are added to page_list (line 251) before the loop test (line 243) looks at
\* the new page_info; then the next page is asked for, or page_list, whatever
\* it is, is returned
fetch_graphql_paginated(g, c, body) ==
    LET pd == find_pagination_and_data_list(body)
        page_list == IF c.first THEN pd.nodes ELSE InPlaceAdd(c.acc, pd.nodes)
        clean == c.clean /\ IsPage(c, body)
    IN  IF pd.raised
        THEN Raise(g, c, "attribute_error", 0)
        ELSE IF ~c.first /\ AddRaises(c.acc, pd.nodes)
        THEN Raise(g, c, "type_error", 0)
        ELSE IF pd.info.t # "dict"
        THEN Raise(g, c, "type_error", 0)
        ELSE IF ~DictHas(pd.info, "hasNextPage")
        THEN Raise(g, c, "key_error", 0)
        ELSE IF Truthy(DictGet(pd.info, "hasNextPage"))
        THEN IF ~DictHas(pd.info, "endCursor")
             THEN Raise(g, c, "key_error", 0)
             ELSE /\ gq' = [gq EXCEPT ![g] =
                             Posting(c.a, FALSE, DictGet(pd.info, "endCursor"),
                                     RetriesCount, page_list, 1, 0, c.np + 1,
                                     clean)]
                  /\ UNCHANGED <<cache, fetched>>
        ELSE StoreAndReturn(g, c, page_list, c.np + 1, clean)

\* lines 189-198: the answer to the POST of _fetch_graphql_query.  A 200 is
\* parsed by res.json() (line 190); a 502 is retried without its body being
\* read; for any other answer the message of the Exception is built with
\* res.json() (line 197), so a body that is not JSON raises the decode error
\* instead of the Exception that names the query and the status.  An error
\* raised by Python itself carries no status (0).
fetch_graphql_query(g, c, answer) ==
    IF answer.status = 200
    THEN IF ~Decodes(answer.body)
         THEN Raise(g, c, "decode_error", 0)
         ELSE IF Paginated(c.a.query)
         THEN fetch_graphql_paginated(g, c, answer.body)
         ELSE StoreAndReturn(g, c, answer.body, 0, TRUE)
    ELSE IF MayRetry(answer.status, c.retries)
    THEN /\ gq' = [gq EXCEPT ![g] =
                    Posting(c.a, c.first, c.after, c.retries - 1, c.acc,
                            c.n + 1, c.k + 1, c.np, c.clean)]
         /\ UNCHANGED <<cache, fetched>>
    ELSE IF ~Decodes(answer.body)
    THEN Raise(g, c, "decode_error", 0)
    ELSE Raise(g, c, "status_error", answer.status)

\* lines 255-265, up to the first POST
get_remote_graphql(g, a) ==
    /\ gq[g].pc # "post"
    /\ IF Has(cache, GraphqlKey(a.query, a.kwargs))
       THEN /\ gq' = [gq EXCEPT ![g] =
                        GEnded(a, 0, 0, 0, TRUE, TRUE,
                               GOutcome("return",
                                        Get(cache, GraphqlKey(a.query, a.kwargs)).v,
                                        200))]
            /\ UNCHANGED <<cache, fetched>>
       ELSE /\ SumFetched(DOMAIN fetched) + Cardinality(InFlight) < MaxFetches
            /\ gq' = [gq EXCEPT ![g] =
                        Posting(a, TRUE, NoCursor, RetriesCount, NoList, 1, 0, 0, TRUE)]
            /\ UNCHANGED <<cache, fetched>>
    /\ posts' = [h \in DOMAIN posts |->
                    IF h # g THEN posts[h]
                    ELSE IF gq'[g].pc = "post" THEN 1 ELSE 0]
    /\ UNCHANGED <<pages>>
    /\ UNCHANGED <<plainVars, findVars>>

\* the provider answers the POST caller g has in flight
PostAnswered(g, kind) ==
    /\ gq[g].pc = "post"
    /\ fetch_graphql_query(g, gq[g], Answer(g, kind))
    /\ posts' = [h \in DOMAIN posts |->
                    IF h = g /\ gq'[g].pc = "post" THEN posts[h] + 1 ELSE posts[h]]
    /\ UNCHANGED <<pages>>
    /\ UNCHANGED <<plainVars, findVars>>

-----------------------------------------------------------------------------
(* Inputs of the model *)

BranchList == "repo_branch_list"
HideComment == "hide_outdated_comment"
CommitList == "repo_commit_list"

\* repo_branch_list(owner="o1", name="r1"), the same with the keywords in the
\* other order, the same with another owner, and a query without pagination
GArgs ==
    { Arg(BranchList, << <<"owner", "o1">>, <<"name", "r1">> >>),
      Arg(BranchList, << <<"name", "r1">>, <<"owner", "o1">> >>),
      Arg(BranchList, << <<"owner", "o2">>, <<"name", "r1">> >>),
      Arg(HideComment, << <<"id", "o1">> >>) }

GKeys == { GraphqlKey(a.query, a.kwargs) : a \in GArgs }

AnswerKinds == {"page", "errors", "502", "502_text", "404", "404_text", "500"}

RECURSIVE SeqsUpTo(_, _)
SeqsUpTo(S, n) ==
    IF n = 0 THEN {<<>>}
    ELSE SeqsUpTo(S, n - 1) \cup
         { Append(q, x) : q \in { r \in SeqsUpTo(S, n - 1) : Len(r) = n - 1 }, x \in S }

\* listings of 1..MaxPages pages of 0..MaxPageSize items each
Listings == SeqsUpTo(0..MaxPageSize, MaxPages) \ {<<>>}

-----------------------------------------------------------------------------
(* Responses for _find_pagination_and_data_list: a seed, which is a          *)
(* paginated object or a value without one, wrapped in dicts whose other    *)
(* keys hold scalars, dicts and lists that carry no paginated object.       *)

Commit(i) == Dict(<< <<"oid", Str(<<i>>)>> >>)

PagedObject(items, more) ==
    Dict(<< <<"nodes", List(items)>>,
            <<"pageInfo", Dict(<< <<"endCursor", Str(<<Len(items)>>)>>,
                                  <<"hasNextPage", Bool(more)>> >>)>> >>)

ItemLists == { [j \in 1..n |-> Commit(j)] : n \in 0..MaxPageSize }

PagedSeeds == { PagedObject(items, more) : items \in ItemLists, more \in BOOLEAN }

\* values that hold no paginated object: scalars, a list, an empty dict, a
\* dict with only "nodes", a dict with only "pageInfo"
PlainSeeds ==
    { Str(<<7>>), Null, List(<< Commit(1) >>), Dict(<<>>),
      Dict(<< <<"nodes", List(<< Commit(1) >>)>> >>),
      Dict(<< <<"pageInfo", Dict(<< <<"endCursor", Str(<<1>>)>>,
                                    <<"hasNextPage", Bool(TRUE)>> >>)>> >>) }

Typename == << <<"__typename", Str(<<1>>)>> >>
Owner == << <<"owner", Dict(<< <<"login", Str(<<2>>)>> >>)>> >>
Labels == << <<"labels", List(<< Dict(<< <<"name", Str(<<3>>)>> >>), Str(<<4>>) >>)>> >>

\* the keys before and after the wrapped value
Siblings ==
    { <<<<>>, <<>>>>, <<Typename, <<>>>>, <<<<>>, Owner>>, <<Labels, Typename>>,
      <<Owner, Labels>> }

NotApplied == [done |-> FALSE, pd |-> Fallback]
Applied(pd) == [done |-> TRUE, pd |-> pd]

NothingPlanted == [has |-> FALSE, obj |-> Null, depth |-> 0]
Planted(obj) == [has |-> TRUE, obj |-> obj, depth |-> 0]

\* tree becomes the value of key "target" of a new dict
WrapInDict(sib) ==
    /\ ~found.done
    /\ planted.depth < MaxDepth
    /\ tree' = Dict(sib[1] \o << <<"target", tree>> >> \o sib[2])
    /\ planted' = [planted EXCEPT !.depth = @ + 1]
    /\ UNCHANGED <<cache, plainVars, gqlVars, found>>

\* tree becomes the second element of a list, the value of key "edges"
WrapInList(sib) ==
    /\ ~found.done
    /\ planted.depth < MaxDepth
    /\ tree' = Dict(sib[1] \o << <<"edges", List(<< Commit(9), tree >>)>> >> \o sib[2])
    /\ planted' = [planted EXCEPT !.depth = @ + 1]
    /\ UNCHANGED <<cache, plainVars, gqlVars, found>>

ApplyFind ==
    /\ ~found.done
    /\ found' = Applied(find_pagination_and_data_list(tree))
    /\ UNCHANGED <<cache, plainVars, gqlVars, tree, planted>>

\* a dict that carries both "nodes" and "pageInfo" (line 215)
IsPaged(d) == d.t = "dict" /\ DictHas(d, "nodes") /\ DictHas(d, "pageInfo")

\* the paginated objects put beside the first one
Others == { PagedObject(<< Commit(5) >>, TRUE), PagedObject(<<>>, FALSE) }

WrapSiblings == { <<<<>>, <<>>>>, <<Typename, Labels>> }

\* tree becomes the value of "target" and another paginated object the value
\* of the key after it: the planted object stays the first one
PlantAfter(obj) ==
    /\ ~found.done
    /\ planted.depth < MaxDepth
    /\ tree' = Dict(<< <<"target", tree>>, <<"history", obj>> >>)
    /\ planted' = [planted EXCEPT !.depth = @ + 1]
    /\ UNCHANGED <<cache, plainVars, gqlVars, found>>

\* another paginated object becomes the value of the key before "target":
\* it is now the first one
PlantBefore(obj) ==
    /\ ~found.done
    /\ planted.depth < MaxDepth
    /\ tree' = Dict(<< <<"history", obj>>, <<"target", tree>> >>)
    /\ planted' = [has |-> TRUE, obj |-> obj, depth |-> planted.depth + 1]
    /\ UNCHANGED <<cache, plainVars, gqlVars, found>>

-----------------------------------------------------------------------------
(* Specifications *)

InitWith(listings, callers, consumers) ==
    /\ cache = <<>>
    /\ tasks = <<>>
    /\ gets = [n \in Names |-> 0]
    /\ regs = [n \in Names |-> 0]
    /\ res = [c \in consumers |-> Idle]
    /\ drain = NoDrain
    /\ pages \in listings
    /\ gq = [g \in callers |-> GIdle]
    /\ fetched = [k \in GKeys |-> 0]
    /\ posts = [g \in {} |-> 0]
    /\ tree = Null
    /\ planted = NothingPlanted
    /\ found = NotApplied

\* The pagination search on its own: every seed under every wrapping.
InitFind ==
    /\ cache = <<>>
    /\ tasks = <<>>
    /\ gets = [n \in Names |-> 0]
    /\ regs = [n \in Names |-> 0]
    /\ res = [c \in {"c1"} |-> Idle]
    /\ drain = NoDrain
    /\ pages = <<1>>
    /\ gq = [g \in {"g1"} |-> GIdle]
    /\ fetched = [k \in GKeys |-> 0]
    /\ posts = [g \in {} |-> 0]
    /\ \/ tree \in PagedSeeds /\ planted = Planted(tree)
       \/ tree \in PlainSeeds /\ planted = NothingPlanted
    /\ found = NotApplied

NextFind ==
    \/ \E sib \in Siblings : WrapInDict(sib)
    \/ \E sib \in Siblings : WrapInList(sib)
    \/ ApplyFind

SpecFind == InitFind /\ [][NextFind]_vars

\* The pagination search on objects whose "nodes" is not a list or whose
\* "pageInfo" is not a dict, under every wrapping.
OddSeeds ==
    { DirectBody(List(<<>>), Null), DirectBody(Null, Str(<<7>>)),
      DirectBody(List(<< Commit(1) >>), Null), DirectBody(Null, FirstPageInfo(FALSE)),
      DirectBody(Str(<<7>>), List(<<>>)) }

InitFindOdd ==
    /\ cache = <<>>
    /\ tasks = <<>>
    /\ gets = [n \in Names |-> 0]
    /\ regs = [n \in Names |-> 0]
    /\ res = [c \in {"c1"} |-> Idle]
    /\ drain = NoDrain
    /\ pages = <<1>>
    /\ gq = [g \in {"g1"} |-> GIdle]
    /\ fetched = [k \in GKeys |-> 0]
    /\ posts = [g \in {} |-> 0]
    /\ tree \in OddSeeds /\ planted = Planted(tree)
    /\ found = NotApplied

SpecFindOdd == InitFindOdd /\ [][NextFind]_vars

\* The pagination search over responses with several paginated objects.
InitFindMany ==
    /\ InitFind
    /\ tree \in PagedSeeds

NextFindMany ==
    \/ \E sib \in WrapSiblings : WrapInDict(sib)
    \/ \E sib \in WrapSiblings : WrapInList(sib)
    \/ \E obj \in Others : PlantAfter(obj)
    \/ \E obj \in Others : PlantBefore(obj)
    \/ ApplyFind

SpecFindMany == InitFindMany /\ [][NextFindMany]_vars

\* The pagination and retry engine: one caller, every listing, every answer.
PageArgs ==
    { Arg(BranchList, << <<"owner", "o1">>, <<"name", "r1">> >>),
      Arg(HideComment, << <<"id", "o1">> >>) }

InitPage == InitWith(Listings, {"g1"}, {"c1"})

NextPage ==
    \/ \E a \in PageArgs : get_remote_graphql("g1", a)
    \/ \E kind \in AnswerKinds : PostAnswered("g1", kind)

SpecPage == InitPage /\ [][NextPage]_vars

\* the provider answers while the traversal has received at most MaxPages pages
AnsweredWithin(g, kind) ==
    /\ gq[g].np <= MaxPages
    /\ PostAnswered(g, kind)

\* The paginated fetch against a provider that also sends bodies whose
\* "nodes" is not a list or whose "pageInfo" is not a dict with both keys.
NextOdd ==
    \/ get_remote_graphql("g1", Arg(BranchList, << <<"owner", "o1">>, <<"name", "r1">> >>))
    \/ \E kind \in OddKinds \cup {"page"} : AnsweredWithin("g1", kind)

SpecOdd == InitWith({<<1, 1>>}, {"g1"}, {"c1"}) /\ [][NextOdd]_vars

\* Traversals to their end: a finite listing (repo_branch_list) and a
\* history that never ends (repo_commit_list), with a provider that answers
\* every request.  The model follows a traversal for MaxPages + 1 pages.
TraverseArgs ==
    { Arg(BranchList, << <<"owner", "o1">>, <<"name", "r1">> >>),
      Arg(CommitList, << <<"owner", "o1">>, <<"name", "r1">>,
                         <<"branch", "b1">>, <<"id", "i1">> >>) }

TraverseListings == { <<1>>, <<2, 1>>, <<1, 0, 1>> }

\* the answers of a traversal: a page, or a failure status whose body is
\* JSON or is not
TraverseKinds == {"page", "502", "502_text", "404", "404_text"}

NextTraverse ==
    \/ \E a \in TraverseArgs : get_remote_graphql("g1", a)
    \/ \E kind \in TraverseKinds : AnsweredWithin("g1", kind)

SpecTraverse ==
    /\ InitWith(TraverseListings, {"g1"}, {"c1"})
    /\ [][NextTraverse]_vars
    /\ WF_vars(\E kind \in TraverseKinds : AnsweredWithin("g1", kind))

\* The POSTs of one traversal, counted by the transport: listings of
\* 1..MaxPages pages of one item, any number of 502s before each page.
BudgetListings == { [p \in 1..n |-> 1] : n \in 1..MaxPages }

InitBudget ==
    /\ cache = <<>>
    /\ tasks = <<>>
    /\ gets = [n \in Names |-> 0]
    /\ regs = [n \in Names |-> 0]
    /\ res = [c \in {"c1"} |-> Idle]
    /\ drain = NoDrain
    /\ pages \in BudgetListings
    /\ gq = [g \in {"g1"} |-> GIdle]
    /\ fetched = [k \in GKeys |-> 0]
    /\ posts = [g \in {"g1"} |-> 0]
    /\ tree = Null
    /\ planted = NothingPlanted
    /\ found = NotApplied

NextBudget ==
    \/ get_remote_graphql("g1", Arg(BranchList, << <<"owner", "o1">>, <<"name", "r1">> >>))
    \/ \E kind \in TraverseKinds : PostAnswered("g1", kind)

SpecBudget == InitBudget /\ [][NextBudget]_vars

\* The plain resources: registration, resolution by two consumers, drain.
CacheAnswers == { <<200, "[1]">>, <<404, "[1]">> }

InitCache == InitWith({<<1>>}, {"g1"}, {"c1", "c2"})

NextCache ==
    \/ \E rs \in Resources : load_remote_resources(rs)
    \/ \E i \in 1..MaxTasks : GetStarts(i)
    \/ \E i \in 1..MaxTasks, a \in CacheAnswers : GetCompletes(i, a)
    \/ \E i \in 1..MaxTasks : GetFails(i)
    \/ \E i \in 1..MaxTasks : GetCancelled(i)
    \/ \E c \in {"c1", "c2"}, n \in Names : get_remote_resource(c, n, "json")
    \/ \E c \in {"c1", "c2"} : ResolveResumes(c)
    \/ close_remote_resources
    \/ DrainResumes

SpecCache == InitCache /\ [][NextCache]_vars

\* Concurrent GraphQL callers over every argument list of the model.
InitGraphql == InitWith({<<1, 1>>, <<2>>}, {"g1", "g2"}, {"c1"})

NextGraphql ==
    \/ \E g \in {"g1", "g2"}, a \in GArgs : get_remote_graphql(g, a)
    \/ \E g \in {"g1", "g2"}, kind \in {"page", "404", "404_text"} : PostAnswered(g, kind)

SpecGraphql == InitGraphql /\ [][NextGraphql]_vars

\* The status dispatch of a resolved resource: every status, body, convertor.
ResolveAnswers == Statuses \X Bodies

InitResolve == InitWith({<<1>>}, {"g1"}, {"c1", "c2"})

NextResolve ==
    \/ load_remote_resources(<< <<"linguist", UrlOf("linguist")>> >>)
    \/ \E i \in 1..MaxTasks : GetStarts(i)
    \/ \E i \in 1..MaxTasks, a \in ResolveAnswers : GetCompletes(i, a)
    \/ \E i \in 1..MaxTasks : GetFails(i)
    \/ \E c \in {"c1", "c2"}, cv \in Convertors :
          get_remote_resource(c, "linguist", cv)
    \/ \E c \in {"c1", "c2"} : ResolveResumes(c)

SpecResolve == InitResolve /\ [][NextResolve]_vars

\* Startup: init_download_manager registers the five resources, their GETs
\* start and complete in any order, one consumer resolves them.
InitStartup ==
    /\ cache = <<>>
    /\ tasks = <<>>
    /\ gets = [n \in StartupNames |-> 0]
    /\ regs = [n \in StartupNames |-> 0]
    /\ res = [c \in {"c1"} |-> Idle]
    /\ drain = NoDrain
    /\ pages = <<1>>
    /\ gq = [g \in {"g1"} |-> GIdle]
    /\ fetched = [k \in GKeys |-> 0]
    /\ posts = [g \in {} |-> 0]
    /\ tree = Null
    /\ planted = NothingPlanted
    /\ found = NotApplied

NextStartup ==
    \/ init_download_manager("u1")
    \/ \E i \in 1..Cardinality(StartupNames) : GetStarts(i)
    \/ \E i \in 1..Cardinality(StartupNames) : GetCompletes(i, <<200, "[1]">>)
    \/ \E n \in StartupNames : get_remote_resource("c1", n, "json")
    \/ ResolveResumes("c1")

SpecStartup == InitStartup /\ [][NextStartup]_vars

\* The whole manager: registration and resolution of one resource by two
\* consumers, GraphQL calls and drain.
AllArgs == { Arg(HideComment, << <<"id", "o1">> >>) }

Next ==
    \/ load_remote_resources(<< <<"linguist", UrlOf("linguist")>> >>)
    \/ \E i \in 1..MaxTasks : GetStarts(i)
    \/ \E i \in 1..MaxTasks, a \in CacheAnswers : GetCompletes(i, a)
    \/ \E i \in 1..MaxTasks : GetFails(i)
    \/ \E i \in 1..MaxTasks : GetCancelled(i)
    \/ \E c \in {"c1", "c2"} : get_remote_resource(c, "linguist", "json")
    \/ \E c \in {"c1", "c2"} : ResolveResumes(c)
    \/ close_remote_resources
    \/ DrainResumes
    \/ \E a \in AllArgs : get_remote_graphql("g1", a)
    \/ \E kind \in {"page", "404", "404_text"} : PostAnswered("g1", kind)

Init == InitWith({<<1>>}, {"g1"}, {"c1", "c2"})

Spec == Init /\ [][Next]_vars

-----------------------------------------------------------------------------
(* Claims *)

Settled(e) == e.t = "resp"
Pending(e) == e.t = "task"

\* C1: every GET for a plain resource is the one of a Task made when the
\* resource was registered: however many resolve calls ran or are suspended,
\* the transport has seen at most one GET per registration of the name, and
\* no step in which a resolve call runs (is called, suspends, is resumed or
\* ends) issues a GET.
C1_ResolveIssuesNoRequest ==
    /\ [](\A n \in Names : gets[n] <= regs[n])
    /\ [][ (\E c \in DOMAIN res : res'[c] # res[c]) => gets' = gets ]_vars

\* a name registered once, resolved to a value by both consumers, now Settled
C1_Witness ==
    \E n \in Names :
        /\ regs[n] = 1 /\ gets[n] = 1
        /\ Has(cache, PlainKey(n)) /\ Settled(Get(cache, PlainKey(n)))
        /\ \A c \in DOMAIN res :
              res[c].pc = "done" /\ res[c].name = n /\ res[c].out.kind = "return"

\* C2: for every cache key, over all get_remote_graphql calls with that key,
\* the fetch is run to completion at most once.
C2_FetchedAtMostOnce == \A k \in GKeys : fetched[k] <= 1

\* the same query name and the same parameter name/value pairs, in any order
SameCall(a, b) ==
    /\ a.query = b.query
    /\ {a.kwargs[i] : i \in 1..Len(a.kwargs)} = {b.kwargs[i] : i \in 1..Len(b.kwargs)}

\* a call with arguments b has returned its result and stored it
Stored(b) == fetched[GraphqlKey(b.query, b.kwargs)] > 0

\* what the provider holds for the arguments
TrueData(a) == IF Paginated(a.query) THEN List(AllItems(a, 1)) ELSE MutationBody(a)

\* C3: a get_remote_graphql call is served from the cache, with no POST,
\* exactly when a call with the same query name and the same parameter
\* pairs (in any keyword order) has stored its result before; a call that
\* differs in the query name or in a parameter value is not served from that
\* entry, and what the cache serves is the data of the call's own arguments.
C3_CacheKey ==
    [][ \A g \in DOMAIN gq, a \in GArgs :
          get_remote_graphql(g, a) =>
             /\ gq'[g].hit <=> (\E b \in GArgs : SameCall(a, b) /\ Stored(b))
             /\ gq'[g].hit => /\ gq'[g].pc = "done"
                              /\ gq'[g].n = 0
                              /\ gq'[g].out.kind = "return"
                              /\ gq'[g].out.val = TrueData(a) ]_vars

\* one caller fetched, the other was served the same value from the cache
\* for the same parameters given in another keyword order
C3_Witness ==
    \E g \in DOMAIN gq, h \in DOMAIN gq :
        /\ gq[h].pc = "done" /\ ~gq[h].hit /\ gq[h].out.kind = "return"
        /\ gq[g].pc = "done" /\ gq[g].hit
        /\ SameCall(gq[g].a, gq[h].a)
        /\ gq[g].a.kwargs # gq[h].a.kwargs
        /\ gq[g].out.val = gq[h].out.val

\* C4: one call of _fetch_graphql_query issues at most 11 POSTs; a 200 that
\* answers the POST after k 502 answers, k in 0..10, is returned as the
\* payload (never turned into a status failure); a 502 is retried while
\* fewer than ten 502s came before it, and the call fails on the 502 that
\* answers its 11th POST, with the error that names the query and carries
\* the status 502.
C4_RetryBudget ==
    [][ \A g \in DOMAIN gq, kind \in AnswerKinds :
          PostAnswered(g, kind) =>
             LET c == gq[g]
                 d == gq'[g]
                 answer == Answer(g, kind)
             IN  /\ c.n = c.k + 1 /\ c.k \in 0..10
                 /\ d.n <= 11
                 /\ answer.status = 200 =>
                       /\ d.out.kind # "status_error"
                       /\ ~Paginated(c.a.query) =>
                             /\ d.pc = "done" /\ d.out.kind = "return"
                             /\ d.out.val = answer.body /\ d.n = c.n
                 /\ answer.status = 502 =>
                       IF c.k < 10
                       THEN d.pc = "post" /\ d.n = c.n + 1 /\ d.k = c.k + 1
                       ELSE /\ d.pc = "done" /\ d.out.kind = "status_error"
                            /\ d.out.status = 502 /\ d.n = 11 ]_vars

\* C5: close_remote_resources never raises, whatever the cache holds, and
\* leaves every Settled entry as it was.
C5_DrainNeverRaises ==
    [][ (close_remote_resources \/ DrainResumes) =>
           /\ drain'.pc # "raised"
           /\ \A i \in 1..Len(cache) : Settled(cache[i].e) => cache'[i] = cache[i] ]_vars

\* C6: a paginated get_remote_graphql call that returns, returns every item
\* of every page of the listing, never a proper prefix.
C6_FullListOrFail ==
    \A g \in DOMAIN gq :
        (gq[g].pc = "done" /\ gq[g].out.kind = "return" /\ Paginated(gq[g].a.query))
            => gq[g].out.val = List(AllItems(gq[g].a, 1))

\* C7: when every answer of the traversal was a page of the listing (the
\* last one alone with hasNextPage false), the call returns the pages' items
\* concatenated in page order, after one page answer per page.
C7_Concatenation ==
    \A g \in DOMAIN gq :
        (/\ gq[g].pc = "done" /\ gq[g].out.kind = "return" /\ ~gq[g].hit
         /\ Paginated(gq[g].a.query) /\ gq[g].clean)
            => /\ gq[g].out.val = List(AllItems(gq[g].a, 1))
               /\ gq[g].np = Len(pages)

\* three pages of two, two and one items came back as one list of five
C7_Witness ==
    \E g \in DOMAIN gq :
        /\ pages = <<2, 2, 1>>
        /\ gq[g].pc = "done" /\ gq[g].out.kind = "return" /\ ~gq[g].hit
        /\ gq[g].clean /\ gq[g].np = 3
        /\ Len(gq[g].out.val.els) = 5

\* C8: a resolve that looked at a response returns converter(body) for 200,
\* returns None for 201 and 202, and for any other status raises an error
\* that carries the URL, the status code and the body.
C8_StatusDispatch ==
    \A c \in DOMAIN res :
        (res[c].pc = "done" /\ res[c].r # NoResponse) =>
            LET r == res[c].r
                out == res[c].out
            IN  /\ r.status = 200 =>
                      out = IF Convert(res[c].conv, r.body) = Invalid THEN RaisedDecode
                            ELSE Returned(Convert(res[c].conv, r.body))
                /\ r.status \in {201, 202} => out = ReturnedNone
                /\ r.status \notin {200, 201, 202} =>
                      /\ out.kind = "status_error"
                      /\ out.url = r.url
                      /\ out.status = r.status
                      /\ out.val \in {r.body, JsonLoads(r.body)} \ {Invalid}

\* C9: for a response with exactly one paginated object, at any depth, the
\* search returns that object's nodes and pageInfo; for a response with
\* none, and for a non-object, it returns ([], {hasNextPage: False}).
C9_FindsThePagedObject ==
    found.done =>
        found.pd = IF planted.has
                   THEN PageData(DictGet(planted.obj, "nodes"),
                                 DictGet(planted.obj, "pageInfo"))
                   ELSE Fallback

\* C10 as stated: an entry that is Settled stays the same entry for ever.
C10_SettledForever ==
    [][ \A i \in 1..Len(cache) : Settled(cache[i].e) => cache'[i] = cache[i] ]_vars

\* C10, amended: while its name has been registered only once, a Settled
\* entry never changes and never becomes Pending, whatever runs (resolve,
\* GraphQL call, drain); a resolve that finds an entry Settled observes that
\* response and leaves the cache alone; registering a name, again or not,
\* leaves its entry Pending.
C10_SettledWhileRegisteredOnce ==
    [][ /\ \A i \in 1..Len(cache) :
              (/\ Settled(cache[i].e)
               /\ Len(cache[i].k) = 1
               /\ regs'[cache[i].k[1]] <= 1)
                  => i <= Len(cache') /\ cache'[i] = cache[i]
        /\ \A c \in DOMAIN res, n \in Names :
              (/\ get_remote_resource(c, n, "json")
               /\ Has(cache, PlainKey(n))
               /\ Settled(Get(cache, PlainKey(n))))
                  => res'[c].r = Get(cache, PlainKey(n)).r /\ cache' = cache
        /\ \A n \in Names :
              regs'[n] > regs[n] =>
                  Has(cache', PlainKey(n)) /\ Pending(Get(cache', PlainKey(n))) ]_vars

\* registered once, Settled, observed by both consumers, with a GraphQL
\* result cached beside it and a drain completed
C10_Witness ==
    /\ regs["linguist"] = 1
    /\ Has(cache, PlainKey("linguist"))
    /\ Settled(Get(cache, PlainKey("linguist")))
    /\ \A c \in DOMAIN res :
          res[c].pc = "done" /\ res[c].r = Get(cache, PlainKey("linguist")).r
    /\ Len(cache) = 2
    /\ drain.pc = "ok"

-----------------------------------------------------------------------------
(* Claims C11 to C20 *)

\* the call of consumer c ended in this step: it was called and ran to its
\* end, or it was resumed from its await
EndsNow(c) ==
    \/ /\ res'[c].pc = "done"
       /\ \E n \in Names, cv \in Convertors : get_remote_resource(c, n, cv)
    \/ ResolveResumes(c)

\* the response is one the status dispatch turns into a failure
ErrorStatus(r) == r # NoResponse /\ r.status \notin {200, 201, 202}

\* C11 as stated: after a resolve failed on the status of its response, the
\* key's entry is not the Settled value holding that response.
C11_FailureNotCached ==
    \A c \in DOMAIN res :
        (res[c].pc = "done" /\ ErrorStatus(res[c].r)) =>
            ~(/\ Has(cache, PlainKey(res[c].name))
              /\ Get(cache, PlainKey(res[c].name)) = RespEntry(res[c].r))

\* C11, amended: a resolve that fails on the status of its response leaves
\* the key's entry Settled with that response and issues no GET; a resolve
\* that finds the entry Settled with such a response fails on it again,
\* with no GET and no change of the cache; while the name has been
\* registered only once, that Settled entry stays as it is.
C11_FailureResponseCached ==
    [][ /\ \A c \in DOMAIN res :
              (EndsNow(c) /\ ErrorStatus(res'[c].r)) =>
                  /\ Has(cache', PlainKey(res'[c].name))
                  /\ Get(cache', PlainKey(res'[c].name)) = RespEntry(res'[c].r)
                  /\ res'[c].out.kind \in {"status_error", "decode_error"}
                  /\ gets' = gets
        /\ \A c \in DOMAIN res, cv \in Convertors :
              (/\ get_remote_resource(c, "linguist", cv)
               /\ Has(cache, PlainKey("linguist"))
               /\ Settled(Get(cache, PlainKey("linguist")))
               /\ ErrorStatus(Get(cache, PlainKey("linguist")).r))
                  => /\ res'[c].pc = "done"
                     /\ res'[c].r = Get(cache, PlainKey("linguist")).r
                     /\ res'[c].out.kind \in {"status_error", "decode_error"}
                     /\ cache' = cache /\ gets' = gets /\ tasks' = tasks
        /\ \A i \in 1..Len(cache) :
              (/\ Settled(cache[i].e) /\ ErrorStatus(cache[i].e.r)
               /\ Len(cache[i].k) = 1
               /\ regs'[cache[i].k[1]] <= 1)
                  => cache'[i] = cache[i] ]_vars

\* registered once, answered 404: both consumers failed on that response,
\* which is the key's Settled entry, and one GET was issued
C11_Witness ==
    /\ regs["linguist"] = 1 /\ gets["linguist"] = 1
    /\ Has(cache, PlainKey("linguist"))
    /\ Settled(Get(cache, PlainKey("linguist")))
    /\ Get(cache, PlainKey("linguist")).r.status = 404
    /\ \A c \in DOMAIN res :
          /\ res[c].pc = "done"
          /\ res[c].r = Get(cache, PlainKey("linguist")).r
          /\ res[c].out.kind = "status_error"

\* the entry of the name is a Task that ended with a network error
FailedEntry(n) ==
    /\ Has(cache, PlainKey(n))
    /\ Pending(Get(cache, PlainKey(n)))
    /\ tasks[Get(cache, PlainKey(n)).id].st = "failed"

\* C12: a resolve whose pending fetch failed with a network error raises
\* it and stores nothing; and once the key's fetch has failed, the entry
\* stays that failed fetch, never a Settled value, until the key is
\* registered again, so that every later resolve fails again with no GET.
C12_FailureSticks ==
    [][ /\ \A c \in DOMAIN res, cv \in Convertors :
              (get_remote_resource(c, "linguist", cv) /\ FailedEntry("linguist")) =>
                  /\ res'[c].pc = "done" /\ res'[c].out = RaisedNetwork
                  /\ cache' = cache /\ gets' = gets /\ tasks' = tasks
        /\ \A c \in DOMAIN res :
              (ResolveResumes(c) /\ tasks[res[c].id].st = "failed") =>
                  /\ res'[c].pc = "done" /\ res'[c].out = RaisedNetwork
                  /\ cache' = cache /\ gets' = gets
        /\ \A n \in Names :
              (FailedEntry(n) /\ regs'[n] = regs[n]) =>
                  /\ Get(cache', PlainKey(n)) = Get(cache, PlainKey(n))
                  /\ tasks'[Get(cache, PlainKey(n)).id].st = "failed" ]_vars

\* the call of caller g ended in this step by raising on an answer with a
\* status other than 200: the error of lines 196-198, or the decode error
\* its message raises
FailsNow(g) ==
    /\ gq[g].pc = "post" /\ gq'[g].pc = "done"
    /\ gq'[g].out.kind \in {"status_error", "decode_error"}

\* C13: a get_remote_graphql call that fails on a status (a non-200 status
\* or the 502 that exhausts the budget, on the only request or on any page)
\* leaves the cache as it was, with no entry under its key; the next call
\* with the same key starts again from the first page with an empty list.
C13_FailureLeavesCache ==
    [][ /\ \A g \in DOMAIN gq :
              FailsNow(g) =>
                  /\ cache' = cache
                  /\ fetched' = fetched
                  /\ ~Has(cache', GraphqlKey(gq[g].a.query, gq[g].a.kwargs))
                  /\ gq'[g].out.status # 200
                  /\ gq'[g].out.val = Null
        /\ \A g \in DOMAIN gq, a \in PageArgs :
              (/\ get_remote_graphql(g, a)
               /\ gq[g].pc = "done"
               /\ gq[g].out.kind \in {"status_error", "decode_error"}
               /\ SameCall(a, gq[g].a))
                  => /\ gq'[g].pc = "post" /\ ~gq'[g].hit
                     /\ gq'[g].first /\ gq'[g].after = NoCursor
                     /\ gq'[g].acc = NoList /\ gq'[g].np = 0
                     /\ gq'[g].n = 1 /\ gq'[g].retries = RetriesCount ]_vars

\* a paginated call failed on a later page, after two pages with items had
\* been accumulated, and nothing is cached under its key
C13_Witness ==
    \E g \in DOMAIN gq :
        /\ gq[g].pc = "done" /\ gq[g].out.kind = "status_error"
        /\ Paginated(gq[g].a.query)
        /\ gq[g].np = 2 /\ pages[1] > 0 /\ pages[2] > 0
        /\ ~Has(cache, GraphqlKey(gq[g].a.query, gq[g].a.kwargs))

\* C14: an answer with a status other than 200 and 502 ends the query call
\* at once with a failure, with no further POST, whatever is left of the
\* retry budget and however many 502s came before.  The failure carries the
\* status when the body of the answer is JSON; when it is not, the failure
\* is the decode error raised while the message is built (see C4).
C14_NoRetryOnOtherStatus ==
    [][ \A g \in DOMAIN gq, kind \in AnswerKinds :
          (PostAnswered(g, kind) /\ Answer(g, kind).status \notin {200, 502}) =>
              /\ gq'[g].pc = "done"
              /\ IF Decodes(Answer(g, kind).body)
                 THEN /\ gq'[g].out.kind = "status_error"
                      /\ gq'[g].out.status = Answer(g, kind).status
                 ELSE gq'[g].out.kind = "decode_error"
              /\ gq'[g].out.val = Null
              /\ gq'[g].n = gq[g].n /\ gq'[g].k = gq[g].k
              /\ cache' = cache ]_vars

\* a 500 that followed three retried 502s failed the call on its 4th POST,
\* with seven retries left
C14_Witness ==
    \E g \in DOMAIN gq :
        /\ gq[g].pc = "done" /\ gq[g].out.kind = "status_error"
        /\ gq[g].out.status = 500
        /\ gq[g].k = 3 /\ gq[g].n = 4

\* the entry is the handle of a fetch started for the name, or the complete
\* response of such a fetch
HandleOrResponse(ts, name, e) ==
    \/ /\ e.t = "task"
       /\ e.id \in 1..Len(ts)
       /\ ts[e.id].name = name
    \/ /\ e.t = "resp"
       /\ \E j \in 1..Len(ts) :
             /\ ts[j].name = name /\ ts[j].st = "done"
             /\ e.r = ts[j].r /\ e.r.status \in Statuses

\* C15: a consumer resumed from its await on a fetch gets that fetch's
\* outcome: its response, which it leaves as the key's Settled entry, or its
\* failure, with the cache untouched; the outcome of a finished fetch never
\* changes, so two consumers suspended on the same fetch get the same; and
\* a plain key's entry is always a pending handle or a complete response.
C15_SameOutcomeNoHalfUpdate ==
    [][ /\ \A c \in DOMAIN res :
              (res[c].pc = "await" /\ EndsNow(c)) =>
                  LET t == tasks[res[c].id] IN
                  /\ TaskDone(t)
                  /\ t.st = "done" =>
                        /\ res'[c].r = t.r
                        /\ Get(cache', PlainKey(res[c].name)) = [t |-> "resp", r |-> t.r]
                  /\ t.st = "failed" =>
                        res'[c].out = RaisedNetwork /\ cache' = cache
                  /\ t.st = "cancelled" =>
                        res'[c].out = RaisedCancelled /\ cache' = cache
        /\ \A j \in 1..Len(tasks) : TaskDone(tasks[j]) => tasks'[j] = tasks[j]
        /\ \A i \in 1..Len(cache') :
              Len(cache'[i].k) = 1 =>
                  HandleOrResponse(tasks', cache'[i].k[1], cache'[i].e) ]_vars

\* both consumers suspended on the fetch of "linguist"; it completed, the
\* first was resumed, got the response and Settled the entry, and the
\* second is still suspended on the same fetch
C15_Witness ==
    /\ res["c1"].pc = "done" /\ res["c1"].name = "linguist"
    /\ res["c1"].out.kind = "return"
    /\ res["c2"].pc = "await" /\ res["c2"].name = "linguist"
    /\ regs["linguist"] = 1
    /\ tasks[res["c2"].id].st = "done"
    /\ res["c1"].r = tasks[res["c2"].id].r
    /\ Get(cache, PlainKey("linguist")) = [t |-> "resp", r |-> res["c1"].r]

\* C16: when close_remote_resources completes, every Task that
\* load_remote_resources has started is done: completed, failed or cancelled.
C16_NothingInFlightAfterDrain ==
    [][ ((close_remote_resources \/ DrainResumes) /\ drain'.pc = "ok") =>
            \A j \in 1..Len(tasks') : TaskDone(tasks'[j]) ]_vars

\* the paginated objects of a response, in depth-first order: the value
\* itself, then the values of its keys in key order, the elements of a list
\* value in index order
RECURSIVE PagedIn(_), PagedInValues(_, _), PagedInItems(_, _)

PagedInItems(els, i) ==
    IF i > Len(els) THEN <<>>
    ELSE PagedIn(els[i]) \o PagedInItems(els, i + 1)

PagedInValues(kv, i) ==
    IF i > Len(kv) THEN <<>>
    ELSE (IF kv[i][2].t = "list" THEN PagedInItems(kv[i][2].els, 1)
          ELSE PagedIn(kv[i][2]))
         \o PagedInValues(kv, i + 1)

PagedIn(value) ==
    IF value.t # "dict" THEN <<>>
    ELSE IF IsPaged(value) THEN <<value>>
    ELSE PagedInValues(value.kv, 1)

\* C17: for a response with more than one paginated object, the search
\* returns the nodes and pageInfo of the first one in depth-first order,
\* also when that one has no nodes and hasNextPage false.
C17_FirstInDepthFirstOrder ==
    (found.done /\ Len(PagedIn(tree)) > 1) =>
        found.pd = PageData(DictGet(PagedIn(tree)[1], "nodes"),
                            DictGet(PagedIn(tree)[1], "pageInfo"))

\* C18: the first request of a traversal carries no cursor; a retry of a
\* request carries the cursor the request had; when page p of the listing
\* arrives, the next page is requested exactly when p is not the last page,
\* with the endCursor of page p as its cursor, and otherwise the traversal
\* returns, after as many page answers as the listing has pages.
C18_CursorChain ==
    [][ /\ \A g \in DOMAIN gq, a \in PageArgs :
              (get_remote_graphql(g, a) /\ gq'[g].pc = "post") =>
                  gq'[g].after = NoCursor /\ gq'[g].first /\ gq'[g].np = 0
        /\ \A g \in DOMAIN gq :
              (PostAnswered(g, "502") /\ gq'[g].pc = "post") =>
                  gq'[g].after = gq[g].after /\ gq'[g].np = gq[g].np
        /\ \A g \in DOMAIN gq :
              (PostAnswered(g, "page") /\ Paginated(gq[g].a.query)) =>
                  LET p == AskedPage(gq[g].after) IN
                  /\ p = gq[g].np + 1 /\ p \in 1..Len(pages)
                  /\ gq'[g].np = p
                  /\ gq'[g].pc = "post" <=> p < Len(pages)
                  /\ gq'[g].pc = "post" =>
                        /\ gq'[g].after = DictGet(PageInfo(p), "endCursor")
                        /\ AskedPage(gq'[g].after) = p + 1
                  /\ gq'[g].pc # "post" =>
                        gq'[g].pc = "done" /\ gq'[g].out.kind = "return" ]_vars

\* the third request of a traversal over three pages is in flight and
\* carries the endCursor of the second page
C18_Witness ==
    \E g \in DOMAIN gq :
        /\ Len(pages) = 3
        /\ gq[g].pc = "post" /\ gq[g].np = 2
        /\ gq[g].after = DictGet(PageInfo(2), "endCursor")

\* C19: with every request answered, a traversal of a finite listing
\* eventually returns or fails; against the history that never ends every
\* page answer is followed by the request of the next page, and the
\* traversal never returns: it can end only by failing on an answer whose
\* status is not 200 (with the error that carries the status, or with the
\* decode error of line 197 when the body of that answer is not JSON).
C19_EndsOnlyByHasNextPage ==
    /\ \A g \in {"g1"} :
          (gq[g].pc = "post" /\ gq[g].a.query = BranchList) ~> (gq[g].pc = "done")
    /\ [][ \A g \in {"g1"} :
              (PostAnswered(g, "page") /\ gq[g].a.query = CommitList) =>
                  /\ gq'[g].pc = "post"
                  /\ gq'[g].np = gq[g].np + 1
                  /\ gq'[g].acc.t = "list"
                  /\ Len(gq'[g].acc.els) = gq'[g].np ]_vars
    /\ [](\A g \in {"g1"} :
            (gq[g].pc = "done" /\ gq[g].a.query = CommitList) =>
                /\ gq[g].out.kind \in {"status_error", "decode_error"}
                /\ gq[g].out.status # 200 /\ gq[g].out.val = Null)

\* the traversal of the endless history has received three pages and has
\* its fourth request in flight
C19_Witness ==
    \E g \in DOMAIN gq :
        /\ gq[g].a.query = CommitList
        /\ gq[g].pc = "post" /\ gq[g].np = 3 /\ Len(gq[g].acc.els) = 3

\* C20: every page request of a traversal starts with the full budget of
\* ten retries, whatever the requests before it used up; so a traversal that
\* has received np pages has issued at most 11 POSTs for each of them and for
\* the request it has in flight or failed on, and a traversal that returns
\* the n pages of a listing has issued at most 11 * n POSTs.
C20_BudgetPerPage ==
    /\ [][ \A g \in DOMAIN posts, kind \in AnswerKinds :
              (PostAnswered(g, kind) /\ gq'[g].pc = "post"
                                     /\ gq'[g].np = gq[g].np + 1) =>
                  /\ gq'[g].retries = 10
                  /\ gq'[g].n = 1 /\ gq'[g].k = 0
                  /\ posts'[g] = posts[g] + 1 ]_vars
    /\ [](\A g \in DOMAIN posts :
            /\ gq[g].pc = "post" =>
                  /\ gq[g].retries = 10 - gq[g].k
                  /\ posts[g] <= 11 * gq[g].np + gq[g].n
                  /\ gq[g].n <= 11
            /\ gq[g].pc = "done" =>
                  posts[g] <= 11 * (gq[g].np +
                                    (IF gq[g].out.kind = "return" THEN 0 ELSE 1))
            /\ (gq[g].pc = "done" /\ gq[g].out.kind = "return" /\ ~gq[g].hit) =>
                  gq[g].np = Len(pages) /\ posts[g] <= 11 * Len(pages))

\* a traversal over three pages returned after 33 POSTs: ten 502s were
\* retried before each of the three pages
C20_Witness ==
    \E g \in DOMAIN posts :
        /\ Len(pages) = 3
        /\ gq[g].pc = "done" /\ gq[g].out.kind = "return" /\ ~gq[g].hit
        /\ gq[g].np = 3 /\ posts[g] = 33

=============================================================================
